---- MODULE Spec2Model ----
(***************************************************************************)
(* Model of homework.py: the polling / notification loop of main() and the *)
(* functions it calls (check_tokens, get_api_answer, check_response,       *)
(* parse_status, send_message).                                            *)
(*                                                                         *)
(* Python values are modelled by records that carry the Python type name.  *)
(* The Russian message texts of the source are transliterated to ASCII.    *)
(* The clock is int(time.time()): whole seconds.  Every blocking call      *)
(* (requests.get, bot.send_message, time.sleep) lets the clock advance.    *)
(***************************************************************************)
EXTENDS Integers, Sequences, FiniteSets, TLC

(* ---------------------------- bounds ----------------------------------- *)
StartTime == 1000       \* clock value when main() starts
MaxLatency == 3         \* duration (s) of a slow network call
MaxCycles == 3          \* number of get_api_answer calls explored
MaxHomeworks == 1       \* longest homeworks list in a response body

(* ------------------------ program constants ---------------------------- *)
RETRY_PERIOD == 600
TIME_GAP == 1
SEND_RETRY_DELAY == 60
HTTP_OK == 200

TOKEN_NAMES == <<"PRACTICUM_TOKEN", "TELEGRAM_TOKEN", "TELEGRAM_CHAT_ID">>

HOMEWORK_VERDICTS ==
    [s \in {"approved", "reviewing", "rejected"} |->
        CASE s = "approved"  -> "Rabota proverena: revyueru vsyo ponravilos. Ura!"
          [] s = "reviewing" -> "Rabota vzyata na proverku revyuerom."
          [] s = "rejected"  -> "Rabota proverena: u revyuera est zamechaniya."]

(* ------------------------- helper operators ---------------------------- *)
RECURSIVE Join(_)
\* ', '.join(seq)
Join(seq) ==
    IF seq = <<>> THEN ""
    ELSE IF Len(seq) = 1 THEN seq[1]
    ELSE seq[1] \o ", " \o Join(Tail(seq))

\* the result of a call: exc = "None" when the call returned normally
Returned == [exc |-> "None", text |-> ""]
Raised(exception, message) == [exc |-> exception, text |-> message]

\* log_and_raise(message, exception)
log_and_raise(message, exception) == Raised(exception, message)

\* str(error) as used in the f-strings of main(): KeyError shows the repr
\* of its argument, every other exception its message
StrOfError(e) ==
    IF e.exc = "KeyError" THEN "'" \o e.text \o "'" ELSE e.text

(* --------------------------- Python values ----------------------------- *)
Names == {"proj1", "x"}
Statuses == {"approved", "reviewing", "rejected", "unknown"}

\* one element of the homeworks list
HomeworkRecords ==
    [type : {"dict"}, keys : SUBSET {"homework_name", "status"},
     homework_name : Names, status : Statuses]
    \cup {[type |-> "int", keys |-> {}, homework_name |-> "x",
           status |-> "unknown"]}

\* canonical form: a key that is absent carries no value
Canonical(h) ==
    /\ ("homework_name" \notin h.keys => h.homework_name = "x")
    /\ ("status" \notin h.keys => h.status = "unknown")

Homeworks == {h \in HomeworkRecords : Canonical(h)}

HomeworkLists == UNION {[1..n -> Homeworks] : n \in 0..MaxHomeworks}

\* decoded JSON bodies
Responses ==
    {[type |-> t, keys |-> {}, hw_type |-> "NoneType", homeworks |-> <<>>] :
        t \in {"list", "NoneType"}}
    \cup {[type |-> "dict", keys |-> k, hw_type |-> "NoneType",
           homeworks |-> <<>>] : k \in SUBSET {"current_date"}}
    \cup {[type |-> "dict", keys |-> k \cup {"homeworks"}, hw_type |-> t,
           homeworks |-> <<>>] :
             k \in SUBSET {"current_date"}, t \in {"dict", "NoneType"}}
    \cup {[type |-> "dict", keys |-> k \cup {"homeworks"}, hw_type |-> "list",
           homeworks |-> l] :
             k \in SUBSET {"current_date"}, l \in HomeworkLists}

NoResponse == [type |-> "NoneType", keys |-> {}, hw_type |-> "NoneType",
               homeworks |-> <<>>]

(* ------------------------- check_tokens -------------------------------- *)
\* TELEGRAM_CHAT_ID is not among the required tokens
missing_tokens_no_chat_id(tokens) ==
    SelectSeq(<<"PRACTICUM_TOKEN", "TELEGRAM_TOKEN">>,
              LAMBDA key : ~tokens[key])

\* tokens[name] = TRUE when the environment variable is set
missing_tokens(tokens) ==
    SelectSeq(TOKEN_NAMES, LAMBDA key : ~tokens[key])

check_tokens(tokens) ==
    IF missing_tokens(tokens) # <<>>
    THEN log_and_raise("Otsutstvuyut neobhodimye peremennye okruzheniya: "
                       \o Join(missing_tokens(tokens)), "MissingTokensError")
    ELSE Returned

(* ------------------------- check_response ------------------------------ *)
required_keys == <<"homeworks", "current_date">>

\* only the first missing key is kept
missing_keys_first(response) ==
    IF "homeworks" \notin response.keys THEN <<"homeworks">>
    ELSE IF "current_date" \notin response.keys THEN <<"current_date">>
    ELSE <<>>

\* line 139: the required keys that are not in the response, in order
missing_keys(response) ==
    SelectSeq(required_keys, LAMBDA key : key \notin response.keys)

\* the isinstance(response, dict) test is left out
check_response_no_dict_test(response) ==
    IF missing_keys(response) # <<>>
    THEN log_and_raise("Otvet API ne soderzhit neobhodimye klyuchi: "
                       \o Join(missing_keys(response)), "KeyError")
    ELSE IF response.hw_type # "list"
    THEN log_and_raise("Tip dannyh pod klyuchom \"homeworks\" ne "
                       \o "sootvetsvuet ozhidaemomu. Poluchennyy tip dannyh: "
                       \o "<class '" \o response.hw_type \o "'>.", "TypeError")
    ELSE Returned

check_response(response) ==
    IF response.type # "dict"
    THEN log_and_raise("Struktura otveta API ne sootvetsvuet ozhidaemoy. "
                       \o "Poluchennyy tip dannyh: <class '"
                       \o response.type \o "'>.", "TypeError")
    ELSE IF missing_keys(response) # <<>>
    THEN log_and_raise("Otvet API ne soderzhit neobhodimye klyuchi: "
                       \o Join(missing_keys(response)), "KeyError")
    ELSE IF response.hw_type # "list"
    THEN log_and_raise("Tip dannyh pod klyuchom \"homeworks\" ne "
                       \o "sootvetsvuet ozhidaemomu. Poluchennyy tip dannyh: "
                       \o "<class '" \o response.hw_type \o "'>.", "TypeError")
    ELSE Returned

(* --------------------------- parse_status ------------------------------ *)
\* homework.get('status'): None when the key is absent
homework_status(homework) ==
    IF "status" \in homework.keys THEN homework.status ELSE "None"

\* the verdict of another status is substituted
parse_status_fixed_verdict(homework) ==
    IF homework.type # "dict"
    THEN Raised("TypeError", "argument of type '" \o homework.type
                             \o "' is not iterable")
    ELSE IF "homework_name" \notin homework.keys
    THEN log_and_raise("Otvet API ne soderzhit klyuch \"homework_name\".",
                       "HomeworkStatusError")
    ELSE IF homework_status(homework) \notin DOMAIN HOMEWORK_VERDICTS
    THEN log_and_raise("Neizvestnyy status domashney raboty: "
                       \o homework_status(homework), "HomeworkStatusError")
    ELSE [exc |-> "None",
          text |-> "Izmenilsya status proverki raboty \""
                   \o homework.homework_name \o "\". "
                   \o HOMEWORK_VERDICTS["approved"]]

parse_status(homework) ==
    IF homework.type # "dict"
    THEN Raised("TypeError", "argument of type '" \o homework.type
                             \o "' is not iterable")
    ELSE IF "homework_name" \notin homework.keys
    THEN log_and_raise("Otvet API ne soderzhit klyuch \"homework_name\".",
                       "HomeworkStatusError")
    ELSE IF homework_status(homework) \notin DOMAIN HOMEWORK_VERDICTS
    THEN log_and_raise("Neizvestnyy status domashney raboty: "
                       \o homework_status(homework), "HomeworkStatusError")
    ELSE [exc |-> "None",
          text |-> "Izmenilsya status proverki raboty \""
                   \o homework.homework_name \o "\". "
                   \o HOMEWORK_VERDICTS[homework_status(homework)]]

(* --------------------------- send_message ------------------------------ *)
\* what bot.send_message can do: complete, or raise one of these
BOT_OUTCOMES == {"ok", "ApiException", "RequestException", "Exception"}

\* the last except clause (lines 94-96) falls through to the else branch
send_message_optimistic(outcome) ==
    CASE outcome = "ApiException"     -> [exc |-> "None", value |-> FALSE]
      [] outcome = "RequestException" -> [exc |-> "None", value |-> FALSE]
      [] outcome = "Exception"        -> [exc |-> "None", value |-> TRUE]
      [] outcome = "ok"               -> [exc |-> "None", value |-> TRUE]

\* the last except clause (lines 94-96) is left out
send_message_narrow(outcome) ==
    CASE outcome = "ApiException"     -> [exc |-> "None", value |-> FALSE]
      [] outcome = "RequestException" -> [exc |-> "None", value |-> FALSE]
      [] outcome = "Exception"        -> [exc |-> "Exception", value |-> FALSE]
      [] outcome = "ok"               -> [exc |-> "None", value |-> TRUE]

\* TRUE / FALSE returned by send_message; it has no raising path
send_message(outcome) ==
    CASE outcome = "ApiException"     -> [exc |-> "None", value |-> FALSE]
      [] outcome = "RequestException" -> [exc |-> "None", value |-> FALSE]
      [] outcome = "Exception"        -> [exc |-> "None", value |-> FALSE]
      [] outcome = "ok"               -> [exc |-> "None", value |-> TRUE]

(* -------------------------- get_api_answer ----------------------------- *)
\* what requests.get and response.json() can do
STATUS_CODES == {HTTP_OK, 404, 500}

FetchOutcomes ==
    {[transport |-> "RequestException", status_code |-> 0, decodable |-> FALSE,
      body |-> NoResponse]}
    \cup {[transport |-> "ok", status_code |-> c, decodable |-> FALSE,
           body |-> NoResponse] : c \in STATUS_CODES}
    \cup {[transport |-> "ok", status_code |-> HTTP_OK, decodable |-> TRUE,
           body |-> b] : b \in Responses}

\* the exception get_api_answer ends with, or Returned
get_api_answer(o) ==
    IF o.transport # "ok"
    THEN log_and_raise("Nedostupnost endpointa.", "ApiRequestError")
    ELSE IF o.status_code # HTTP_OK
    THEN log_and_raise("Oshibka pri poluchenii dannyh ot API: Status otveta "
                       \o ToString(o.status_code), "ApiRequestError")
    ELSE IF ~o.decodable
    THEN Raised("JSONDecodeError", "Expecting value")
    ELSE Returned

(* ------------------------------ state ---------------------------------- *)
VARIABLES
    pc,              \* position of main()
    tokens,          \* which of the three environment variables are set
    now,             \* int(time.time())
    timestamp,       \* the cursor of main()
    error_reported,  \* the flag of main()
    from_date,       \* request_params['params']['from_date'] of the last call
    response,        \* the local variable response of main()
    message,         \* the local variable message of main()
    error,           \* the exception bound by "except Exception as error"
    cycles,          \* number of get_api_answer calls made so far
    last,            \* what the last step did (observer)
    cycle_result,    \* how the last completed cycle ended (observer)
    cycle_sends,     \* send_message calls since the last fetch (observer)
    streak,          \* failed cycles since the last fully successful one
    streak_sends,    \* send_message calls with a failure text in this streak
    streak_delivered,\* one of them returned True
    initial_cursor,  \* the value line 182 gave the cursor (observer)
    covered_to       \* change times up to here were all seen by some fetch

vars == <<pc, tokens, now, timestamp, error_reported, from_date, response,
          message, error, cycles, last, cycle_result, cycle_sends, streak,
          streak_sends, streak_delivered, initial_cursor, covered_to>>

\* a network call returns within the same second or takes MaxLatency seconds
Durations == {0, MaxLatency}

Max(a, b) == IF a >= b THEN a ELSE b

\* observer record: the operation, the send_message call it made (if any),
\* its text and result, and the seconds it slept
Did(op, sent, text, delivered, slept) ==
    [op |-> op, sent |-> sent, text |-> text, delivered |-> delivered,
     slept |-> slept, outcome |-> "none"]

\* the same for a step that called send_message, with what bot.send_message
\* did inside it
DidSend(op, sent, text, outcome) ==
    [op |-> op, sent |-> sent, text |-> text,
     delivered |-> (send_message(outcome).exc = "None"
                      /\ send_message(outcome).value),
     slept |-> 0, outcome |-> outcome]

\* send_message(bot, message) returned True
Delivered(outcome) ==
    send_message(outcome).exc = "None" /\ send_message(outcome).value

Init ==
    /\ pc = "main"
    /\ tokens \in [{TOKEN_NAMES[i] : i \in 1..Len(TOKEN_NAMES)} -> BOOLEAN]
    /\ now = StartTime
    /\ timestamp = 0
    /\ error_reported = FALSE
    /\ from_date = 0
    /\ response = NoResponse
    /\ message = ""
    /\ error = Returned
    /\ cycles = 0
    /\ last = Did("start", "none", "", FALSE, 0)
    /\ cycle_result = "none"
    /\ cycle_sends = 0
    /\ streak = 0
    /\ streak_sends = 0
    /\ streak_delivered = FALSE
    /\ initial_cursor = 0
    /\ covered_to = 0

(* main(), lines 180-183: check_tokens, then the cursor and the flag *)
Main ==
    /\ pc = "main"
    /\ IF check_tokens(tokens).exc # "None"
       THEN /\ pc' = "exit"
            /\ error' = check_tokens(tokens)
            /\ UNCHANGED <<timestamp, initial_cursor, covered_to>>
       ELSE /\ pc' = "fetch"
            /\ timestamp' = now
            /\ initial_cursor' = now
            /\ covered_to' = now - 1
            /\ UNCHANGED error
    /\ error_reported' = FALSE
    /\ last' = Did("check_tokens", "none", "", FALSE, 0)
    /\ UNCHANGED <<tokens, now, from_date, response, message, cycles,
                   cycle_result, cycle_sends, streak, streak_sends,
                   streak_delivered>>

(* line 187: response = get_api_answer(timestamp) *)
GetApiAnswer ==
    /\ pc = "fetch"
    /\ cycles < MaxCycles
    /\ \E o \in FetchOutcomes, d \in Durations :
         /\ now' = now + d
         /\ from_date' = timestamp
         /\ IF get_api_answer(o).exc = "None"
            THEN /\ response' = o.body
                 /\ pc' = "check_response"
                 \* the body reflects every change from from_date up to
                 \* the second in which it arrives
                 /\ covered_to' = IF timestamp <= covered_to + 1
                                  THEN Max(covered_to, now')
                                  ELSE covered_to
                 /\ UNCHANGED error
            ELSE /\ error' = get_api_answer(o)
                 /\ pc' = "except"
                 /\ UNCHANGED <<response, covered_to>>
    /\ cycles' = cycles + 1
    /\ cycle_sends' = 0
    /\ last' = Did("get_api_answer", "none", "", FALSE, 0)
    /\ UNCHANGED <<tokens, timestamp, error_reported, message, cycle_result,
                   streak, streak_sends, streak_delivered, initial_cursor>>

\* what check_response raises is dropped and the try block goes on
CheckResponse_ignored ==
    /\ pc = "check_response"
    /\ pc' = "homeworks"
    /\ last' = Did("check_response", "none", "", FALSE, 0)
    /\ UNCHANGED <<tokens, now, timestamp, error_reported, from_date,
                   response, message, error, cycles, cycle_result,
                   cycle_sends, streak, streak_sends, streak_delivered,
                   initial_cursor, covered_to>>

(* line 188: check_response(response) *)
CheckResponse ==
    /\ pc = "check_response"
    /\ IF check_response(response).exc = "None"
       THEN pc' = "homeworks" /\ UNCHANGED error
       ELSE pc' = "except" /\ error' = check_response(response)
    /\ last' = Did("check_response", "none", "", FALSE, 0)
    /\ UNCHANGED <<tokens, now, timestamp, error_reported, from_date,
                   response, message, cycles, cycle_result, cycle_sends,
                   streak, streak_sends, streak_delivered, initial_cursor,
                   covered_to>>

(* lines 189-191: homeworks is not empty, message = parse_status(homeworks[0]) *)
ParseStatus ==
    /\ pc = "homeworks"
    /\ response.homeworks # <<>>
    /\ IF parse_status(response.homeworks[1]).exc = "None"
       THEN /\ pc' = "send_message"
            /\ message' = parse_status(response.homeworks[1]).text
            /\ UNCHANGED error
       ELSE /\ pc' = "except"
            /\ error' = parse_status(response.homeworks[1])
            /\ UNCHANGED message
    /\ last' = Did("parse_status", "none", "", FALSE, 0)
    /\ UNCHANGED <<tokens, now, timestamp, error_reported, from_date,
                   response, cycles, cycle_result, cycle_sends, streak,
                   streak_sends, streak_delivered, initial_cursor,
                   covered_to>>

\* line 203: int(time.time()) - TIME_GAP, t the clock when the line runs
advance_cursor_period(t) == t - RETRY_PERIOD
advance_cursor_no_gap(t) == t
advance_cursor(t) == t - TIME_GAP

\* line 204 is left out on the path without homeworks
NoNewStatus_keeps_flag ==
    /\ pc = "homeworks"
    /\ response.homeworks = <<>>
    /\ timestamp' = advance_cursor(now)
    /\ pc' = "sleep"
    /\ last' = Did("no_new_status", "none", "", FALSE, 0)
    /\ cycle_result' = "success"
    /\ streak' = 0
    /\ streak_sends' = 0
    /\ streak_delivered' = FALSE
    /\ UNCHANGED <<tokens, now, error_reported, from_date, response, message,
                   error, cycles, cycle_sends, initial_cursor, covered_to>>

(* lines 189-190, 200-204: homeworks is empty, the cycle succeeds *)
NoNewStatus ==
    /\ pc = "homeworks"
    /\ response.homeworks = <<>>
    /\ timestamp' = advance_cursor(now)
    /\ error_reported' = FALSE
    /\ pc' = "sleep"
    /\ last' = Did("no_new_status", "none", "", FALSE, 0)
    /\ cycle_result' = "success"
    /\ streak' = 0
    /\ streak_sends' = 0
    /\ streak_delivered' = FALSE
    /\ UNCHANGED <<tokens, now, from_date, response, message, error, cycles,
                   cycle_sends, initial_cursor, covered_to>>

(* lines 192-199 and 203-204: deliver the status message; a failed delivery
   goes to the sleep of line 198, a success to lines 203-204 *)
SendStatus ==
    /\ pc = "send_message"
    /\ \E outcome \in BOT_OUTCOMES, d \in Durations :
         /\ now' = now + d
         /\ last' = DidSend("send_status", "status", message, outcome)
         /\ IF send_message(outcome).exc # "None"
            THEN /\ pc' = "except"
                 /\ error' = Raised(send_message(outcome).exc, "")
                 /\ UNCHANGED <<timestamp, error_reported, cycle_result,
                                streak, streak_sends, streak_delivered>>
            ELSE IF ~send_message(outcome).value
            THEN /\ pc' = "retry_sleep"
                 /\ cycle_result' = "undelivered"
                 /\ UNCHANGED <<timestamp, error_reported, error, streak,
                                streak_sends, streak_delivered>>
            ELSE /\ pc' = "sleep"
                 /\ timestamp' = advance_cursor(now')
                 /\ error_reported' = FALSE
                 /\ cycle_result' = "success"
                 /\ streak' = 0
                 /\ streak_sends' = 0
                 /\ streak_delivered' = FALSE
                 /\ UNCHANGED error
    /\ cycle_sends' = cycle_sends + 1
    /\ UNCHANGED <<tokens, from_date, response, message, cycles,
                   initial_cursor, covered_to>>

(* lines 198-199: time.sleep(60); continue *)
RetrySleep_resend ==
    /\ pc = "retry_sleep"
    /\ now' = now + SEND_RETRY_DELAY
    /\ last' = Did("retry_sleep", "none", "", FALSE, SEND_RETRY_DELAY)
    /\ pc' = "send_message"
    /\ UNCHANGED <<tokens, timestamp, error_reported, from_date, response,
                   message, error, cycles, cycle_result, cycle_sends, streak,
                   streak_sends, streak_delivered, initial_cursor,
                   covered_to>>

\* the continue of line 199 is left out: line 212 runs as well
RetrySleep_no_continue ==
    /\ pc = "retry_sleep"
    /\ now' = now + SEND_RETRY_DELAY
    /\ last' = Did("retry_sleep", "none", "", FALSE, SEND_RETRY_DELAY)
    /\ pc' = "sleep"
    /\ UNCHANGED <<tokens, timestamp, error_reported, from_date, response,
                   message, error, cycles, cycle_result, cycle_sends, streak,
                   streak_sends, streak_delivered, initial_cursor,
                   covered_to>>

RetrySleep ==
    /\ pc = "retry_sleep"
    /\ now' = now + SEND_RETRY_DELAY
    /\ last' = Did("retry_sleep", "none", "", FALSE, SEND_RETRY_DELAY)
    /\ pc' = "fetch"
    \* response and message are assigned again before their next use
    /\ response' = NoResponse
    /\ message' = ""
    /\ UNCHANGED <<tokens, timestamp, error_reported, from_date, error,
                   cycles, cycle_result, cycle_sends, streak, streak_sends,
                   streak_delivered, initial_cursor, covered_to>>

\* line 207: if not error_reported
should_report_always(flag) == TRUE
should_report(flag) == ~flag

(* lines 205-210 without the cursor: log, report once, set the flag *)
ExceptClause ==
    /\ pc = "except"
    /\ IF should_report(error_reported)
       THEN \E outcome \in BOT_OUTCOMES, d \in Durations :
              /\ now' = now + d
              /\ last' = DidSend("except", "error",
                                 "Oshibka v rabote programmy: "
                                     \o StrOfError(error), outcome)
              /\ cycle_sends' = cycle_sends + 1
              /\ streak_sends' = streak_sends + 1
              /\ streak_delivered' = (streak_delivered \/ Delivered(outcome))
              /\ IF send_message(outcome).exc # "None"
                 THEN pc' = "crashed" /\ UNCHANGED error_reported
                 ELSE pc' = "sleep" /\ error_reported' = TRUE
       ELSE /\ last' = Did("except", "none", "", FALSE, 0)
            /\ pc' = "sleep"
            /\ UNCHANGED <<now, error_reported, cycle_sends, streak_sends,
                           streak_delivered>>
    /\ cycle_result' = "failed"
    /\ streak' = streak + 1
    \* Python unbinds the name error when the except clause ends
    /\ error' = Returned
    /\ UNCHANGED <<tokens, from_date, response, message, cycles,
                   initial_cursor, covered_to>>

Except_advances ==
    ExceptClause /\ timestamp' = advance_cursor(now')

(* lines 205-210: except Exception as error; the cursor is not assigned *)
Except ==
    ExceptClause /\ UNCHANGED timestamp

(* line 212: time.sleep(RETRY_PERIOD) *)
Sleep ==
    /\ pc = "sleep"
    /\ now' = now + RETRY_PERIOD
    /\ last' = Did("sleep", "none", "", FALSE, RETRY_PERIOD)
    /\ pc' = "fetch"
    \* response and message are assigned again before their next use
    /\ response' = NoResponse
    /\ message' = ""
    /\ UNCHANGED <<tokens, timestamp, error_reported, from_date, error,
                   cycles, cycle_result, cycle_sends, streak, streak_sends,
                   streak_delivered, initial_cursor, covered_to>>

Next ==
    \/ Main
    \/ GetApiAnswer
    \/ CheckResponse
    \/ ParseStatus
    \/ NoNewStatus
    \/ SendStatus
    \/ RetrySleep
    \/ Except
    \/ Sleep

Spec == Init /\ [][Next]_vars

\* the process keeps running: every blocking call returns or fails
FairSpec == Spec /\ WF_vars(Next)

\* the environment after the first cycle: requests.get answers 200 with a
\* body that passes check_response, and bot.send_message completes
ValidEnvStep ==
    cycles' >= 2 =>
        /\ (last'.op = "get_api_answer" =>
              pc' = "check_response" /\ check_response(response').exc = "None")
        /\ (last'.sent # "none" => last'.outcome = "ok")

\* the steps of main() that wait for the environment, in that environment
ValidGetApiAnswer == GetApiAnswer /\ ValidEnvStep
ValidSendStatus == SendStatus /\ ValidEnvStep
ValidExcept == Except /\ ValidEnvStep

FairValidNext ==
    \/ Main
    \/ ValidGetApiAnswer
    \/ CheckResponse
    \/ ParseStatus
    \/ NoNewStatus
    \/ ValidSendStatus
    \/ RetrySleep
    \/ ValidExcept
    \/ Sleep

\* main() keeps running in that environment
FairValidSpec == Init /\ [][FairValidNext]_vars /\ WF_vars(FairValidNext)

TypeOK ==
    /\ pc \in {"main", "exit", "fetch", "check_response", "homeworks",
               "send_message", "retry_sleep", "except", "sleep", "crashed"}
    /\ now \in Nat /\ timestamp \in Nat
    /\ error_reported \in BOOLEAN
    /\ response \in Responses \cup {NoResponse}
    /\ cycles \in 0..MaxCycles

\* main() has passed check_tokens and is in its while loop
InLoop == pc \notin {"main", "exit", "crashed"}

(* ============================== claims ================================= *)

\* C1: a cycle in which get_api_answer, check_response or parse_status
\* raises leaves the cursor at the value the cycle's fetch used, and the
\* next fetch sends the same from_date.
C1_FailedCycleKeepsCursor ==
    [][/\ (pc = "except" => timestamp' = from_date)
       /\ (cycle_result = "failed" /\ pc = "fetch" => from_date' = from_date)
      ]_vars

\* a fetch made right after a failed cycle, with the from_date of that cycle
C1_Witness ==
    /\ last.op = "get_api_answer"
    /\ cycle_result = "failed"
    /\ cycles >= 2
    /\ from_date = initial_cursor

\* C2: in a run of failed cycles with no fully successful cycle in between,
\* send_message is called with a failure text exactly once, by the first
\* failed cycle of the run; the later ones send nothing.
C2_OneFailureNoticePerStreak ==
    /\ [](streak >= 1 => streak_sends = 1)
    /\ [][pc = "except" =>
            /\ (streak = 0 => last'.sent = "error" /\ cycle_sends' = 1)
            /\ (streak >= 1 => last'.sent = "none" /\ cycle_sends' = 0)]_vars

\* the third failed cycle in a row has ended and the streak holds one notice
C2_Witness ==
    /\ last.op = "except"
    /\ streak = 3
    /\ streak_sends = 1
    /\ last.sent = "none"

\* C3: once a failure streak has set the flag, a failure notification of
\* that streak has been delivered (send_message returned True for it).
C3_FirstFailureDelivered ==
    (InLoop /\ streak >= 1 /\ error_reported) => streak_delivered

C5_NoChangeMissed ==
    InLoop => timestamp <= covered_to + 1

\* C6 as stated: no assignment to the cursor makes it smaller.
C6_CursorNeverDecreases ==
    [][pc # "main" => timestamp' >= timestamp]_vars

\* C6 amended: the cursor decreases at most once, by TIME_GAP, when the
\* first advance happens in the second of start-up; every other assignment
\* is not below the value held before, and none is below start-up value
\* minus TIME_GAP.
C6_CursorDecreasesOnlyByFirstGap ==
    /\ [](InLoop => timestamp >= initial_cursor - TIME_GAP)
    /\ [][pc # "main" =>
            \/ timestamp' >= timestamp
            \/ /\ timestamp = initial_cursor
               /\ now' = initial_cursor
               /\ timestamp' = initial_cursor - TIME_GAP]_vars

\* the cursor after its second advance
C6_Witness ==
    /\ pc = "sleep"
    /\ cycle_result = "success"
    /\ cycles = 3
    /\ timestamp > initial_cursor + RETRY_PERIOD

\* a valid response with an empty homeworks list
ValidEmpty(r) ==
    /\ r.type = "dict"
    /\ r.keys = {"homeworks", "current_date"}
    /\ r.hw_type = "list"
    /\ r.homeworks = <<>>

\* C7: a cycle whose response is valid with an empty homeworks list never
\* calls send_message, never enters the except clause, sets the cursor to
\* the current time minus TIME_GAP and clears the flag.
C7_EmptyHomeworksAdvancesSilently ==
    ValidEmpty(response) =>
        /\ pc \in {"check_response", "homeworks", "sleep"}
        /\ cycle_sends = 0
        /\ (pc = "sleep" =>
              /\ timestamp = now - TIME_GAP
              /\ ~error_reported
              /\ cycle_result = "success"
              /\ last.op = "no_new_status")

\* a second empty cycle in a row has ended
C7_Witness ==
    /\ ValidEmpty(response)
    /\ pc = "sleep"
    /\ cycles = 2
    /\ timestamp = initial_cursor + RETRY_PERIOD - TIME_GAP
    /\ streak = 0

\* number of steps of main() from a position to the next get_api_answer
StepsToFetch(p) ==
    CASE p = "fetch" -> 0
      [] p \in {"sleep", "retry_sleep"} -> 1
      [] p = "except" -> 2
      [] p = "send_message" -> 3
      [] p = "homeworks" -> 4
      [] p = "check_response" -> 5
      [] OTHER -> 6

\* C8: once check_tokens has passed, main() never leaves its loop, whatever
\* get_api_answer, check_response, parse_status and bot.send_message do:
\* the only exit is MissingTokensError, no exception escapes, no position
\* of the loop is stuck, and every step that is not a fetch leads strictly
\* closer to the next get_api_answer call.
C8_LoopNeverTerminates ==
    /\ [](pc = "exit" => check_tokens(tokens).exc = "MissingTokensError")
    /\ [](pc # "crashed")
    /\ []((InLoop /\ ~(pc = "fetch" /\ cycles = MaxCycles)) =>
             ENABLED <<Next>>_vars)
    /\ [][InLoop /\ pc # "fetch" =>
            StepsToFetch(pc') < StepsToFetch(pc)]_vars

\* a failed cycle whose failure notification was not delivered has been
\* absorbed: main() is back at the get_api_answer call
C8_Witness ==
    /\ pc = "fetch"
    /\ cycle_result = "failed"
    /\ streak = 1
    /\ ~streak_delivered
    /\ cycles = 2

\* C9 as stated: check_response raises TypeError for every response that is
\* not a dict and for every dict whose homeworks value is not a list,
\* whichever other keys are present.
C9_TypeMismatchWheneverNotList ==
    last.op = "check_response" =>
        /\ (response.type # "dict" => error.exc = "TypeError")
        /\ (response.type = "dict" /\ "homeworks" \in response.keys
                /\ response.hw_type # "list" => error.exc = "TypeError")

\* C9 amended: TypeError for every response that is not a dict, and for
\* every dict that has both required keys and a homeworks value that is not
\* a list; a dict whose homeworks is not a list and whose current_date is
\* absent gets the KeyError instead.
C9_TypeMismatchAfterKeys ==
    last.op = "check_response" =>
        /\ (response.type # "dict" =>
              pc = "except" /\ error.exc = "TypeError")
        /\ (response.type = "dict" /\ response.hw_type # "list"
                /\ response.keys = {"homeworks", "current_date"} =>
              pc = "except" /\ error.exc = "TypeError")
        /\ (response.type = "dict" /\ response.hw_type # "list"
                /\ response.keys = {"homeworks"} =>
              pc = "except" /\ error.exc = "KeyError")

\* check_response has rejected a list
C9_Witness ==
    /\ last.op = "check_response"
    /\ response.type = "list"
    /\ error.exc = "TypeError"

\* the names the KeyError message has to carry for a dict response
ExpectedMissing(r) ==
    IF "homeworks" \notin r.keys /\ "current_date" \notin r.keys
    THEN "homeworks, current_date"
    ELSE IF "homeworks" \notin r.keys THEN "homeworks"
    ELSE IF "current_date" \notin r.keys THEN "current_date"
    ELSE ""

\* C10: for a dict lacking homeworks, current_date or both check_response
\* raises KeyError with all missing keys, comma-joined, in the message; a
\* dict with both keys and a list under homeworks passes, whatever the
\* records in the list are.
C10_MissingKeysAllNamed ==
    (last.op = "check_response" /\ response.type = "dict") =>
        /\ (ExpectedMissing(response) # "" =>
              /\ pc = "except"
              /\ error.exc = "KeyError"
              /\ error.text = "Otvet API ne soderzhit neobhodimye klyuchi: "
                                \o ExpectedMissing(response))
        /\ (ExpectedMissing(response) = "" /\ response.hw_type = "list" =>
              pc = "homeworks" /\ error.exc = "None")

\* check_response has rejected a dict that lacks both keys
C10_Witness ==
    /\ last.op = "check_response"
    /\ response.type = "dict"
    /\ response.keys = {}
    /\ error.exc = "KeyError"

\* the sentence parse_status has to return for a name and a status
ExpectedSentence(name, status) ==
    "Izmenilsya status proverki raboty \"" \o name \o "\". " \o
    (IF status = "approved"
     THEN "Rabota proverena: revyueru vsyo ponravilos. Ura!"
     ELSE IF status = "reviewing"
     THEN "Rabota vzyata na proverku revyuerom."
     ELSE "Rabota proverena: u revyuera est zamechaniya.")

\* the record main() has just handed to parse_status
Parsed == response.homeworks[1]

\* C11: for a homework record (a dict) parse_status raises
\* HomeworkStatusError when homework_name is missing or when the status is
\* absent or not approved / reviewing / rejected; otherwise it returns the
\* template sentence with the record's name and the verdict of its status.
C11_ParseStatusContract ==
    (last.op = "parse_status" /\ Parsed.type = "dict") =>
        IF "homework_name" \in Parsed.keys /\ "status" \in Parsed.keys
             /\ Parsed.status \in {"approved", "reviewing", "rejected"}
        THEN /\ pc = "send_message"
             /\ message = ExpectedSentence(Parsed.homework_name, Parsed.status)
        ELSE /\ pc = "except"
             /\ error.exc = "HomeworkStatusError"

\* parse_status has returned the sentence for a rejected work named proj1
C11_Witness ==
    /\ last.op = "parse_status"
    /\ pc = "send_message"
    /\ Parsed.homework_name = "proj1"
    /\ Parsed.status = "rejected"

\* C12: whenever get_api_answer fails (transport failure, status code other
\* than 200, body that is not JSON) the exception is ApiRequestError.
C12_FetchFailsWithApiRequestError ==
    (last.op = "get_api_answer" /\ pc = "except") =>
        error.exc = "ApiRequestError"

\* C13: in a cycle whose response fails check_response, parse_status is not
\* invoked and no status message is sent; the cycle goes to the except
\* clause with the validation error, and the only send_message call it can
\* make carries that error.
C13_InvalidResponseNeverParsed ==
    [][/\ (last'.op \in {"parse_status", "send_status"} =>
             check_response(response).exc = "None")
       /\ (pc = "check_response" /\ check_response(response).exc # "None" =>
             pc' = "except" /\ error' = check_response(response))
       /\ (pc = "except" /\ last.op = "check_response" =>
             /\ cycle_sends = 0
             /\ cycle_sends' <= 1
             /\ last'.sent \in {"none", "error"}
             /\ (last'.sent = "error" =>
                   last'.text = "Oshibka v rabote programmy: "
                                  \o StrOfError(check_response(response))))
      ]_vars

\* the failure notification of a response that has a homework record but
\* no current_date
C13_Witness ==
    /\ last.op = "except"
    /\ last.sent = "error"
    /\ response.type = "dict"
    /\ response.keys = {"homeworks"}
    /\ response.homeworks # <<>>
    /\ last.text = "Oshibka v rabote programmy: "
                     \o "'Otvet API ne soderzhit neobhodimye klyuchi: "
                     \o "current_date'"

\* C14: send_message never raises: it returns True when bot.send_message
\* completes and False when bot.send_message raises, whatever it raises.
C14_SendMessageNeverRaises ==
    last.sent # "none" =>
        /\ pc # "crashed"
        /\ (last.op = "send_status" => pc \in {"sleep", "retry_sleep"})
        /\ (last.op = "except" => pc = "sleep")
        /\ (last.delivered <=> last.outcome = "ok")

\* bot.send_message raised an exception that is neither ApiException nor
\* RequestException and send_message returned False
C14_Witness ==
    /\ last.op = "send_status"
    /\ last.outcome = "Exception"
    /\ ~last.delivered
    /\ pc = "retry_sleep"

\* every token is set
AllTokens == \A i \in 1..Len(TOKEN_NAMES) : tokens[TOKEN_NAMES[i]]

\* C15: check_tokens runs once, before the loop.  With a token missing
\* main() ends with MissingTokensError before any fetch or send and never
\* runs again; with all three set the loop starts and check_tokens is not
\* run a second time.
C15_CheckTokensOnceBeforeLoop ==
    /\ [](pc = "main" => cycles = 0 /\ last.op = "start")
    /\ [](pc # "main" => (pc = "exit" <=> ~AllTokens))
    /\ [](pc = "exit" =>
            /\ error.exc = "MissingTokensError"
            /\ cycles = 0
            /\ last.op = "check_tokens"
            /\ last.sent = "none")
    /\ [][/\ pc # "exit"
          /\ pc' # "main"
          /\ (last'.op = "check_tokens" => pc = "main")]_vars

\* main() has ended because only TELEGRAM_CHAT_ID is missing
C15_Witness ==
    /\ pc = "exit"
    /\ tokens["PRACTICUM_TOKEN"]
    /\ tokens["TELEGRAM_TOKEN"]
    /\ ~tokens["TELEGRAM_CHAT_ID"]

\* C16: at the start of every cycle the flag is true exactly when a cycle
\* has failed since the last fully successful one; it is false at start-up
\* and after a successful cycle, true after a failed one, and a failed cycle
\* that finds it false calls send_message with the failure text.
C16_FlagTracksFailureStreak ==
    /\ [](pc = "fetch" => (error_reported <=> streak >= 1))
    /\ [](last.op = "check_tokens" /\ InLoop => ~error_reported)
    /\ []((pc = "sleep" /\ cycle_result = "success") => ~error_reported)
    /\ []((pc = "sleep" /\ cycle_result = "failed") => error_reported)
    /\ [][(pc = "except" /\ ~error_reported) => last'.sent = "error"]_vars

\* a failed cycle that follows a successful one and is reported
C16_Witness ==
    /\ last.op = "except"
    /\ last.sent = "error"
    /\ cycles = 3
    /\ streak = 1
    /\ now >= initial_cursor + 2 * RETRY_PERIOD
    /\ timestamp > initial_cursor

\* C17: two consecutive get_api_answer calls are separated by exactly one
\* sleep: RETRY_PERIOD after a successful or a failed cycle, the 60 s of
\* line 198 alone after a failed status delivery.
C17_OneSleepBetweenFetches ==
    /\ []((pc = "fetch" /\ cycles >= 1) =>
            /\ last.op \in {"sleep", "retry_sleep"}
            /\ (cycle_result \in {"success", "failed"} =>
                  last.op = "sleep" /\ last.slept = RETRY_PERIOD)
            /\ (cycle_result = "undelivered" =>
                  last.op = "retry_sleep" /\ last.slept = SEND_RETRY_DELAY))
    /\ [][/\ (last'.slept > 0 =>
                /\ last.slept = 0
                /\ pc' = "fetch"
                /\ now' = now + last'.slept)
          /\ (last'.op = "get_api_answer" /\ cycles >= 1 => last.slept > 0)
         ]_vars

\* the fetch that follows the 60 s sleep of a failed delivery
C17_Witness ==
    /\ last.op = "get_api_answer"
    /\ cycle_result = "undelivered"
    /\ cycles = 2
    /\ now < initial_cursor + RETRY_PERIOD

\* C18: a cycle that ends in a failed status delivery leaves the cursor and
\* the flag as they were, makes the one send_message call of the status
\* message and no other, and goes to the 60 s sleep.
C18_FailedDeliveryChangesNothing ==
    /\ [](pc = "retry_sleep" =>
            /\ timestamp = from_date
            /\ (error_reported <=> streak >= 1)
            /\ cycle_sends = 1
            /\ last.sent = "status"
            /\ cycle_result = "undelivered")
    /\ [][(pc = "send_message" /\ last'.outcome # "ok") =>
            /\ pc' = "retry_sleep"
            /\ timestamp' = timestamp
            /\ error_reported' = error_reported
            /\ streak_sends' = streak_sends]_vars

\* a failed status delivery in a cycle that started with the flag set
C18_Witness ==
    /\ pc = "retry_sleep"
    /\ error_reported
    /\ streak >= 1
    /\ ~last.delivered

\* C19: a cycle that delivers its status message advances the cursor and
\* clears the flag in that same step; nothing can fail in between.
C19_DeliveredStatusAdvances ==
    (last.op = "send_status" /\ last.delivered) =>
        /\ pc = "sleep"
        /\ timestamp = now - TIME_GAP
        /\ ~error_reported
        /\ cycle_result = "success"
        /\ streak = 0
        /\ error.exc = "None"

\* a status message delivered in a later cycle than the first
C19_Witness ==
    /\ last.op = "send_status"
    /\ last.delivered
    /\ cycles >= 2
    /\ timestamp > initial_cursor + RETRY_PERIOD

\* the cycle has ended with the cursor advanced and the flag cleared
Advanced ==
    /\ pc = "sleep"
    /\ cycle_result = "success"
    /\ ~error_reported
    /\ timestamp = now - TIME_GAP

\* main() holds a response that passes check_response and whose first
\* homework record parse_status rejects
Uninterpretable ==
    /\ check_response(response).exc = "None"
    /\ response.homeworks # <<>>
    /\ parse_status(response.homeworks[1]).exc # "None"

\* a position of the loop with a cycle still to run or running
Running == InLoop /\ ~(pc = "fetch" /\ cycles = MaxCycles)

\* C20 as stated: once fetches return valid responses and deliveries
\* succeed, every cycle ends with the cursor advanced and the flag cleared,
\* so that the cursor advances again and again.
C20_ValidCycleAdvances ==
    (pc = "sleep" /\ cycles >= 2) => Advanced

\* C20 amended: once fetches return valid responses and deliveries succeed,
\* no position of the loop is stuck and every cycle runs to the sleep of
\* line 212 with the cursor advanced and the flag cleared, unless the valid
\* response carries a first record that parse_status rejects; and a failed
\* status delivery brings the loop back to the fetch after the 60 s sleep
\* with the cursor where it was.
C20_AdvancedUnlessUninterpretable ==
    /\ [](Running => ENABLED <<FairValidNext>>_vars)
    /\ [][(Running /\ pc # "fetch" /\ cycles >= 2) =>
            /\ StepsToFetch(pc') < StepsToFetch(pc)
            /\ pc' # "retry_sleep"]_vars
    /\ []((pc = "sleep" /\ cycles >= 2) => (Advanced \/ Uninterpretable))
    /\ []((pc = "fetch" /\ cycle_result = "undelivered") =>
            /\ timestamp = from_date
            /\ last.slept = SEND_RETRY_DELAY)

\* a failed first cycle followed by a cycle that advances the cursor and
\* clears the flag
C20_Witness ==
    /\ Advanced
    /\ cycles = 2
    /\ timestamp > initial_cursor + RETRY_PERIOD
    /\ last.op = "send_status"

====
